---- MODULE Spec2Model ----
(***************************************************************************)
(* A model of the Pitch class of dRowAudio (dRowAudio_Pitch.h): a value    *)
(* holding one frequency, its factories fromFrequency, fromMidiNote and    *)
(* fromNoteName, its accessors getFrequencyHz, getMidiNote and             *)
(* getMidiNoteName, and the private helpers getNoteName, getPitchClass and *)
(* getValidPitchClassLetters.                                              *)
(*                                                                         *)
(* A String is a sequence of characters; a character is a one-letter TLA+  *)
(* string, except the two Unicode accidentals, which are the tokens        *)
(* "U+266F" and "U+266D".  A double is a record: zero, infinity, or a      *)
(* finite value of either sign, mant * 2^exp in thousandths of a Hertz     *)
(* with the mantissa normalised to one octave, [8372018, 16744036).        *)
(***************************************************************************)
EXTENDS Integers, Sequences, FiniteSets, TLC

VARIABLES frequency, call, locals, result, origin

vars == <<frequency, call, locals, result, origin>>

\* ------------------------------------------------------------------ bounds
\* Longest enumerated argument of fromNoteName.
MaxLen == 3
\* fromMidiNote is called with the integers -NegMidiNotes .. MaxMidiNote.
NegMidiNotes == 24
MaxMidiNote == 131

\* --------------------------------------------------------------- C++ ints
\* C++ integer division truncates toward zero and % takes the dividend's sign.
CDiv(a, b) == IF a >= 0 \/ a % b = 0 THEN a \div b ELSE (a \div b) + 1

CRem(a, b) == a - b * CDiv(a, b)

IntMin == -2147483647 - 1

IntMax == 2147483647

\* ------------------------------------------------------------ characters
Range(s) == {s[i] : i \in DOMAIN s}

Digits == <<"0", "1", "2", "3", "4", "5", "6", "7", "8", "9">>

DigitValue(c) == (CHOOSE i \in DOMAIN Digits : Digits[i] = c) - 1

UpperCase == <<"A", "B", "C", "D", "E", "F", "G", "H", "I", "J", "K", "L", "M",
               "N", "O", "P", "Q", "R", "S", "T", "U", "V", "W", "X", "Y", "Z">>

LowerCase == <<"a", "b", "c", "d", "e", "f", "g", "h", "i", "j", "k", "l", "m",
               "n", "o", "p", "q", "r", "s", "t", "u", "v", "w", "x", "y", "z">>

\* juce_wchar lower-casing: only letters change.
toLowerChar(c) ==
    IF c \in Range(UpperCase)
    THEN LowerCase[CHOOSE i \in DOMAIN UpperCase : UpperCase[i] = c]
    ELSE c

\* String::toLowerCase
toLowerCase(s) == [i \in DOMAIN s |-> toLowerChar(s[i])]

\* String::retainCharacters: the characters of s that occur in charactersToRetain.
retainCharacters(s, charactersToRetain) ==
    SelectSeq(s, LAMBDA c : c \in Range(charactersToRetain))

\* String::getIntValue on a string of decimal digits (empty gives 0).
RECURSIVE getIntValue(_)
getIntValue(s) ==
    IF s = <<>> THEN 0
    ELSE 10 * getIntValue(SubSeq(s, 1, Len(s) - 1)) + DigitValue(s[Len(s)])

\* String << int: the signed decimal rendering of an int.
RECURSIVE NaturalToString(_)
NaturalToString(n) ==
    IF n < 10 THEN <<Digits[n + 1]>>
    ELSE Append(NaturalToString(n \div 10), Digits[(n % 10) + 1])

IntToString(n) ==
    IF n >= 0 THEN NaturalToString(n)
    ELSE <<"-">> \o (IF n = IntMin
                      THEN NaturalToString(214748364) \o <<"8">>
                      ELSE NaturalToString(-n))

\* ------------------------------------------------------------- the symbols
getSharpSymbol == "U+266F"

getFlatSymbol == "U+266D"

getValidPitchClassLetters ==
    <<"a", "b", "c", "d", "e", "f", "g", "#", "b">>
        \o <<getSharpSymbol>> \o <<getFlatSymbol>>

\* ---------------------------------------------------------------- doubles
Zero == [kind |-> "zero", mant |-> 0, exp |-> 0]

Infinity == [kind |-> "inf", mant |-> 0, exp |-> 0]

\* 1000 * 440 * 2^((m - 69) / 12) for m = 120 .. 132, rounded down: the
\* mantissas of the twelve semitones of one octave, and the next C.
SemitoneMantissa ==
    <<8372018, 8869844, 9397272, 9956063, 10548081, 11175303, 11839821,
      12543853, 13289750, 14080000, 14917240, 15804265, 16744036>>

\* 1000 * 440 * 2^((m + 1/2 - 69) / 12) for m = 120 .. 131, rounded up: the
\* mantissas half a semitone above each semitone.
QuarterToneMantissa ==
    <<8617337, 9129751, 9672634, 10247799, 10857165, 11502765, 12186755,
      12911417, 13679170, 14492576, 15354349, 16267366>>

\* A positive number of thousandths of a Hertz as a normalised double.
RECURSIVE Normalise(_, _)
Normalise(mant, exp) ==
    IF mant >= SemitoneMantissa[1] THEN [kind |-> "pos", mant |-> mant, exp |-> exp]
    ELSE Normalise(2 * mant, exp - 1)

\* (double) frequencyHz for a whole number of Hertz.
ToDouble(frequencyHz) ==
    IF frequencyHz = 0 THEN Zero
    ELSE IF frequencyHz < 0
         THEN [Normalise(1000 * (-frequencyHz), 0) EXCEPT !.kind = "neg"]
         ELSE Normalise(1000 * frequencyHz, 0)

\* midiToFrequency: 440 * 2^((m - 69) / 12), for a whole MIDI note; a double
\* overflows to infinity from 2^1024 on.
midiToFrequency(midiNoteNumber) ==
    IF midiNoteNumber > 12251 THEN Infinity
    ELSE [kind |-> "pos",
          mant |-> SemitoneMantissa[(midiNoteNumber % 12) + 1],
          exp  |-> (midiNoteNumber \div 12) - 10]

\* frequencyToMidi: 69 + 12 * log2 (hz / 440).  The real result is its floor
\* and where it lies above the floor: "exact" (on the semitone), "low" (less
\* than half a semitone above) or "high".  log2 of zero is minus infinity, of
\* a negative number not a number.
frequencyToMidi(f) ==
    CASE f.kind = "zero" -> [kind |-> "-inf", floor |-> 0, part |-> "exact"]
      [] f.kind = "neg"  -> [kind |-> "nan", floor |-> 0, part |-> "exact"]
      [] f.kind = "inf"  -> [kind |-> "+inf", floor |-> 0, part |-> "exact"]
      [] OTHER ->
           LET k == CHOOSE i \in 1..12 :
                       SemitoneMantissa[i] <= f.mant /\ f.mant < SemitoneMantissa[i + 1]
           IN [kind  |-> "finite",
               floor |-> 12 * (f.exp + 10) + (k - 1),
               part  |-> IF f.mant = SemitoneMantissa[k] THEN "exact"
                         ELSE IF f.mant < QuarterToneMantissa[k] THEN "low"
                         ELSE "high"]

\* (int) x: truncation toward zero.  Converting an infinity or a NaN to int is
\* undefined; the builds in use give INT_MIN (x86), or saturate and give 0 for
\* a NaN (ARM).
IntCast(x) ==
    CASE x.kind = "finite" ->
           {IF x.floor >= 0 \/ x.part = "exact" THEN x.floor ELSE x.floor + 1}
      [] x.kind = "-inf" -> {IntMin}
      [] x.kind = "+inf" -> {IntMin, IntMax}
      [] OTHER -> {IntMin, 0}

\* ------------------------------------------------------------------ Pitch
\* getNoteName with the black keys spelled as flats.
getNoteNameFlats(pitchClass) ==
    CASE pitchClass = 0  -> <<"C">>
      [] pitchClass = 1  -> <<"D", "b">>
      [] pitchClass = 2  -> <<"D">>
      [] pitchClass = 3  -> <<"E", "b">>
      [] pitchClass = 4  -> <<"E">>
      [] pitchClass = 5  -> <<"F">>
      [] pitchClass = 6  -> <<"G", "b">>
      [] pitchClass = 7  -> <<"G">>
      [] pitchClass = 8  -> <<"A", "b">>
      [] pitchClass = 9  -> <<"A">>
      [] pitchClass = 10 -> <<"B", "b">>
      [] pitchClass = 11 -> <<"B">>
      [] OTHER -> <<>>

\* getNoteName: a pitch class number to a letter.
getNoteName(pitchClass) ==
    CASE pitchClass = 0  -> <<"C">>
      [] pitchClass = 1  -> <<"C", "#">>
      [] pitchClass = 2  -> <<"D">>
      [] pitchClass = 3  -> <<"D", "#">>
      [] pitchClass = 4  -> <<"E">>
      [] pitchClass = 5  -> <<"F">>
      [] pitchClass = 6  -> <<"F", "#">>
      [] pitchClass = 7  -> <<"G">>
      [] pitchClass = 8  -> <<"G", "#">>
      [] pitchClass = 9  -> <<"A">>
      [] pitchClass = 10 -> <<"A", "#">>
      [] pitchClass = 11 -> <<"B">>
      [] OTHER -> <<>>

\* The first switch of getPitchClass: the base letter's pitch class.
BasePitchClass(base) ==
    CASE base = "c" -> 0
      [] base = "d" -> 2
      [] base = "e" -> 4
      [] base = "f" -> 5
      [] base = "g" -> 7
      [] base = "a" -> 9
      [] base = "b" -> 11
      [] OTHER -> -1

\* ApplyAccidental without the comparison with the two Unicode symbols.
ApplyAccidentalAsciiOnly(pitchClass, sharpOrFlat) ==
    CASE sharpOrFlat = "#" -> pitchClass + 1
      [] sharpOrFlat = "b" -> pitchClass - 1
      [] OTHER -> pitchClass

\* The second switch of getPitchClass and the comparison with the two
\* Unicode symbols that follows it.
ApplyAccidental(pitchClass, sharpOrFlat) ==
    LET switched == CASE sharpOrFlat = "#" -> pitchClass + 1
                      [] sharpOrFlat = "b" -> pitchClass - 1
                      [] OTHER -> pitchClass
    IN IF sharpOrFlat = getSharpSymbol THEN switched + 1
       ELSE IF sharpOrFlat = getFlatSymbol THEN switched - 1
       ELSE switched

\* Modulo12 wrapping into 0 .. 11, as a mathematical modulo does.
Modulo12Wrapping(pitchClass) == pitchClass % 12

\* pitchClass %= 12
Modulo12(pitchClass) == CRem(pitchClass, 12)

\* getPitchClass: the pitch class number for a given string.
getPitchClass(pitchClassName) ==
    LET numChars == Len(pitchClassName)
        initial == -1
        based == IF numChars > 0
                 THEN BasePitchClass(toLowerCase(pitchClassName)[1])
                 ELSE initial
    IN IF numChars > 1
       THEN Modulo12(ApplyAccidental(based, pitchClassName[2]))
       ELSE based

\* The locals of fromNoteName.
OctaveName(noteName) == retainCharacters(noteName, Digits)

\* PitchClassName without the lower-casing.
PitchClassNameCaseKept(noteName) ==
    retainCharacters(noteName, getValidPitchClassLetters)

PitchClassName(noteName) ==
    retainCharacters(toLowerCase(noteName), getValidPitchClassLetters)

\* IsPitchClass taking -1 as the only failure.
IsPitchClassFromZero(pitchClass) == pitchClass >= 0

\* The test that chooses between fromMidiNote and Pitch (0.0).
IsPitchClass(pitchClass) == pitchClass > 0

fromNoteNameLocals(noteName) ==
    LET octave == getIntValue(OctaveName(noteName))
        pitchClass == getPitchClass(PitchClassName(noteName))
    IN [fn |-> "fromNoteName", octave |-> octave, pitchClass |-> pitchClass,
        midiNote |-> (octave * 12) + pitchClass]

fromNoteName(noteName) ==
    LET l == fromNoteNameLocals(noteName)
    IN IF IsPitchClass(l.pitchClass) THEN midiToFrequency(l.midiNote) ELSE Zero

\* getMidiNote
getMidiNote(f) == frequencyToMidi(f)

\* The locals of getMidiNoteName, given the int its cast produced.
getMidiNoteNameLocals(midiNote) ==
    [fn |-> "getMidiNoteName", octave |-> CDiv(midiNote, 12) - 1,
     pitchClass |-> CRem(midiNote, 12), midiNote |-> midiNote]

\* The string getMidiNoteName builds from its locals.
NoteNameOf(l) == getNoteName(l.pitchClass) \o IntToString(l.octave)

\* ------------------------------------------------------------- the inputs
\* The characters the enumerated note names are made of: the seven letters,
\* three of them in upper case too, the three accidental symbols, three
\* digits and a character no filter retains.
Alphabet ==
    {"a", "b", "c", "d", "e", "f", "g", "A", "B", "C",
     "#", getSharpSymbol, getFlatSymbol, "0", "3", "4", "z"}

RECURSIVE StringsOfLength(_)
StringsOfLength(n) ==
    IF n = 0 THEN {<<>>}
    ELSE {Append(s, c) : s \in StringsOfLength(n - 1), c \in Alphabet}

NotANote == <<"n", "o", "t", " ", "a", " ", "n", "o", "t", "e">>

\* Longer arguments, from the documentation and the tests.
Examples ==
    {NotANote,
     <<"A", "4", "f", "o", "o", "2">>,
     <<" ", "A", "#", "3", " ">>,
     <<"G", "#", "1", "0">>,
     <<"C", "#", "-", "1">>,
     <<"a", "9", "9", "9", "9">>}

NoteNames == UNION {StringsOfLength(n) : n \in 0..MaxLen} \cup Examples

MidiNotes == (-NegMidiNotes)..MaxMidiNote

\* Whole numbers of Hertz for fromFrequency.
Frequencies == {-440, 0, 1, 4, 5, 8, 9, 17, 27, 261, 440, 450, 453, 466, 1000, 12544}

\* ------------------------------------------------------------- the machine
NoCall == [op |-> "Pitch", arg |-> <<>>]

NoLocals == [fn |-> "none", octave |-> 0, pitchClass |-> 0, midiNote |-> 0]

NoResult == [fn |-> "none", value |-> <<>>]

\* Pitch(): a default pitch object with a frequency of 0 Hertz.
Init ==
    /\ frequency = Zero
    /\ call = NoCall
    /\ locals = NoLocals
    /\ result = NoResult
    /\ origin = NoCall

\* pitch = Pitch::fromFrequency (frequencyHz).  No accessor has been called on
\* the new value, so a factory leaves no result and no accessor's locals.
FromFrequency(frequencyHz) ==
    /\ frequency' = ToDouble(frequencyHz)
    /\ call' = [op |-> "fromFrequency", arg |-> frequencyHz]
    /\ locals' = NoLocals
    /\ result' = NoResult
    /\ UNCHANGED origin

\* pitch = Pitch::fromMidiNote (midiNote)
FromMidiNote(midiNote) ==
    /\ frequency' = midiToFrequency(midiNote)
    /\ call' = [op |-> "fromMidiNote", arg |-> midiNote]
    /\ locals' = NoLocals
    /\ result' = NoResult
    /\ UNCHANGED origin

\* pitch = Pitch::fromNoteName (noteName)
FromNoteName(noteName) ==
    /\ frequency' = fromNoteName(noteName)
    /\ call' = [op |-> "fromNoteName", arg |-> noteName]
    /\ locals' = fromNoteNameLocals(noteName)
    /\ result' = NoResult
    /\ UNCHANGED origin

\* pitch.getFrequencyHz()
GetFrequencyHz ==
    /\ result' = [fn |-> "getFrequencyHz", value |-> frequency]
    /\ UNCHANGED <<frequency, call, locals, origin>>

\* pitch.getMidiNote()
GetMidiNote ==
    /\ result' = [fn |-> "getMidiNote", value |-> getMidiNote(frequency)]
    /\ UNCHANGED <<frequency, call, locals, origin>>

\* pitch.getMidiNoteName()
GetMidiNoteName ==
    \E midiNote \in IntCast(getMidiNote(frequency)) :
        /\ locals' = getMidiNoteNameLocals(midiNote)
        /\ result' = [fn |-> "getMidiNoteName", value |-> NoteNameOf(locals')]
        /\ UNCHANGED <<frequency, call, origin>>

\* pitch = Pitch::fromNoteName (pitch.getMidiNoteName()) for a pitch made by
\* fromMidiNote or fromFrequency with a positive finite frequency: the name
\* round trip.
ReparseName ==
    /\ call.op \in {"fromMidiNote", "fromFrequency"}
    /\ frequency.kind = "pos"
    /\ result.fn = "getMidiNoteName"
    /\ frequency' = fromNoteName(result.value)
    /\ call' = [op |-> "fromNoteName", arg |-> result.value]
    /\ locals' = fromNoteNameLocals(result.value)
    /\ origin' = call
    /\ result' = NoResult

\* One behaviour follows one Pitch value: a factory makes it from the default
\* object, then its accessors are called on it.
Next ==
    \/ call = NoCall /\ \E frequencyHz \in Frequencies : FromFrequency(frequencyHz)
    \/ call = NoCall /\ \E midiNote \in MidiNotes : FromMidiNote(midiNote)
    \/ call = NoCall /\ \E noteName \in NoteNames : FromNoteName(noteName)
    \/ GetFrequencyHz
    \/ GetMidiNote
    \/ GetMidiNoteName
    \/ ReparseName

Spec == Init /\ [][Next]_vars

\* ------------------------------------------------------------ the claims
\* The nearest whole MIDI note of a finite real MIDI note.
Rounded(x) == IF x.part = "high" THEN x.floor + 1 ELSE x.floor

BaseLetters == {"a", "b", "c", "d", "e", "f", "g", "A", "B", "C", "D", "E", "F", "G"}

AccidentalSymbols == {"#", "b", getSharpSymbol, getFlatSymbol}

IsOctaveDigits(s) == s # <<>> /\ \A i \in DOMAIN s : s[i] \in Range(Digits)

From(s, from) == SubSeq(s, from, Len(s))

\* A pitch-class letter, an optional accidental, then octave digits.
IsNoteName(s) ==
    /\ Len(s) >= 2
    /\ s[1] \in BaseLetters
    /\ \/ IsOctaveDigits(From(s, 2))
       \/ Len(s) >= 3 /\ s[2] \in AccidentalSymbols /\ IsOctaveDigits(From(s, 3))

\* A letter, one accidental character (of either case), then octave digits.
IsLetterAccidentalOctave(s) ==
    /\ Len(s) >= 3
    /\ s[1] \in BaseLetters
    /\ IsOctaveDigits(From(s, 3))

AfterFromNoteName == call.op = "fromNoteName" /\ locals.fn = "fromNoteName"

\* The letters and accidental symbols of s, in order, whatever their case.
PitchClassCharacters(s) ==
    SelectSeq(s, LAMBDA c : c \in BaseLetters \cup {"#", getSharpSymbol, getFlatSymbol})

\* The most lenient reading of "can be parsed as a note name": characters
\* outside the grammar are dropped, digits may stand anywhere or be missing,
\* and the letters and accidentals left are one base letter followed by
\* accidentals only.
IsLenientNoteName(s) ==
    LET p == PitchClassCharacters(s)
    IN /\ p # <<>>
       /\ p[1] \in BaseLetters
       /\ \A i \in 2..Len(p) : p[i] \in {"#", "b", "B", getSharpSymbol, getFlatSymbol}

\* C1: fromNoteName returns the Pitch of frequency 0 for every string that
\* cannot be parsed as a note name, even on the most lenient reading of the
\* grammar: so for "not a note" and for "zz".
C1_UnparseableGivesZero ==
    call.op = "fromNoteName" /\ ~IsLenientNoteName(call.arg) => frequency = Zero

\* C2: for every MIDI note m in 1 .. 127, parsing the name getMidiNoteName
\* gives for fromMidiNote(m) yields a Pitch whose MIDI note rounds to m.
C2_NameRoundTrip ==
    (call.op = "fromNoteName" /\ origin.op = "fromMidiNote" /\ origin.arg \in 1..127)
        => /\ frequency.kind = "pos"
           /\ Rounded(getMidiNote(frequency)) = origin.arg

\* C3: fromNoteName numbers octaves as getMidiNoteName does: a name of pitch
\* class pc in 1 .. 11 and octave digits o is MIDI note (o + 1) * 12 + pc, so
\* "A4" is MIDI note 69 and "A#3" MIDI note 58.
C3_OctaveNumbering ==
    (AfterFromNoteName /\ IsNoteName(call.arg) /\ locals.pitchClass \in 1..11)
        => /\ frequency = midiToFrequency((locals.octave + 1) * 12 + locals.pitchClass)
           /\ call.arg = <<"A", "4">> => Rounded(getMidiNote(frequency)) = 69
           /\ call.arg = <<"A", "#", "3">> => Rounded(getMidiNote(frequency)) = 58

\* The letter a semitone-pair's flat spelling uses, for the five sharps.
FlatSpellingLetter(c) ==
    CASE c \in {"c", "C"} -> "D"
      [] c \in {"d", "D"} -> "E"
      [] c \in {"f", "F"} -> "G"
      [] c \in {"g", "G"} -> "A"
      [] c \in {"a", "A"} -> "B"

\* C4: in fromNoteName '#' and U+266F are interchangeable, 'b' and U+266D are
\* interchangeable, and each of C#/Db, D#/Eb, F#/Gb, G#/Ab, A#/Bb gives the
\* same frequency in both spellings at the same octave.
C4_AccidentalSpellings ==
    (call.op = "fromNoteName" /\ IsLetterAccidentalOctave(call.arg))
        => LET s == call.arg
           IN /\ s[2] = "#" => frequency = fromNoteName([s EXCEPT ![2] = getSharpSymbol])
              /\ s[2] = "b" => frequency = fromNoteName([s EXCEPT ![2] = getFlatSymbol])
              /\ (s[2] \in {"#", getSharpSymbol} /\ s[1] \in {"c", "C", "d", "D", "f", "F", "g", "G", "a", "A"})
                    => /\ frequency = fromNoteName([s EXCEPT ![1] = FlatSpellingLetter(s[1]), ![2] = "b"])
                       /\ frequency = fromNoteName([s EXCEPT ![1] = FlatSpellingLetter(s[1]), ![2] = getFlatSymbol])
                       /\ frequency # Zero

C4_Witness ==
    /\ call = [op |-> "fromNoteName", arg |-> <<"A", "#", "3">>]
    /\ frequency = midiToFrequency(46)

\* The twelve names of the formatter's table.
SharpNames ==
    << <<"C">>, <<"C", "#">>, <<"D">>, <<"D", "#">>, <<"E">>, <<"F">>,
       <<"F", "#">>, <<"G">>, <<"G", "#">>, <<"A">>, <<"A", "#">>, <<"B">> >>

\* The decimal rendering of a number below 100.
TwoDigitDecimal(n) ==
    IF n < 10 THEN <<Digits[n + 1]>> ELSE <<Digits[(n \div 10) + 1], Digits[(n % 10) + 1]>>

\* C5: for every whole MIDI note m >= 12, getMidiNoteName is the table entry
\* for m mod 12, with '#' and never a flat, followed by the decimal rendering
\* of m div 12 - 1.
C5_FormatterSplit ==
    (result.fn = "getMidiNoteName" /\ call.op = "fromMidiNote" /\ call.arg >= 12)
        => result.value = SharpNames[(call.arg % 12) + 1]
                              \o TwoDigitDecimal((call.arg \div 12) - 1)

C5_Witness ==
    /\ call = [op |-> "fromMidiNote", arg |-> 70]
    /\ result = [fn |-> "getMidiNoteName", value |-> <<"A", "#", "4">>]

\* C6: when the first retained character is a base letter, the pitch class the
\* parser returns lies in 0 .. 11 ("Cb" gives 11, "B#" gives 0).
C6_PitchClassInRange ==
    (AfterFromNoteName /\ PitchClassName(call.arg) # <<>>
        /\ PitchClassName(call.arg)[1] \in BaseLetters)
        => locals.pitchClass \in 0..11

\* C7 as stated: an upper-case 'B' after the base letter is not a flat, so the
\* name parses to the pitch class of the base letter alone.
C7_UpperCaseBIsNoFlat ==
    (AfterFromNoteName /\ IsLetterAccidentalOctave(call.arg) /\ call.arg[2] = "B")
        => locals.pitchClass = fromNoteNameLocals(<<call.arg[1]>> \o From(call.arg, 3)).pitchClass

\* C7, amended: the name is lower-cased before it is filtered, so an upper-case
\* 'B' after the base letter is a flat exactly as a lower-case 'b' is: "AB3"
\* parses as "Ab3" does, to pitch class 8, and not as "A3" does.
C7_UpperCaseBIsFlat ==
    (AfterFromNoteName /\ IsLetterAccidentalOctave(call.arg) /\ call.arg[2] = "B")
        => /\ locals = fromNoteNameLocals([call.arg EXCEPT ![2] = "b"])
           /\ frequency = fromNoteName([call.arg EXCEPT ![2] = "b"])
           /\ locals.pitchClass # fromNoteNameLocals(<<call.arg[1]>> \o From(call.arg, 3)).pitchClass
           /\ call.arg = <<"A", "B", "3">> => locals.pitchClass = 8

C7_Witness ==
    /\ call = [op |-> "fromNoteName", arg |-> <<"A", "B", "3">>]
    /\ locals.fn = "fromNoteName"
    /\ locals.pitchClass = 8
    /\ frequency = midiToFrequency(44)

\* C8: in getMidiNoteName the pitch class lies in 0 .. 11 also for a negative
\* truncated MIDI note, so the name begins with one of the twelve table entries.
C8_NamePitchClassInRange ==
    (result.fn = "getMidiNoteName" /\ frequency.kind = "pos")
        => /\ locals.pitchClass \in 0..11
           /\ result.value # <<>>
           /\ result.value[1] \in {"C", "D", "E", "F", "G", "A", "B"}

\* C-natural names: the letter C and octave digits.
IsCNatural(s) == Len(s) >= 2 /\ s[1] \in {"c", "C"} /\ IsOctaveDigits(From(s, 2))

C10_AccidentalFirstGivesZero ==
    (call.op = "fromNoteName" /\ PitchClassCharacters(call.arg) # <<>>
        /\ PitchClassCharacters(call.arg)[1] \in {"#", getSharpSymbol, getFlatSymbol})
        => frequency = Zero

C10_Witness ==
    /\ call = [op |-> "fromNoteName", arg |-> <<"#", "A", "4">>]
    /\ frequency = Zero

====
